---- MODULE Spec2Model ----
(***************************************************************************)
(* Rate Limit Blocking filter (src/rate_limit_blocking.py): the per-user   *)
(* message counter with cooldown and pending-request accounting, driven by *)
(* the host's inlet / outlet hooks.                                        *)
(*                                                                         *)
(* Time is time.time(), a float of seconds.  It is modelled as an integer  *)
(* number of ticks, Res ticks to the second, so that int(...) of a time    *)
(* difference is a real truncation.                                        *)
(***************************************************************************)
EXTENDS Integers, Sequences, FiniteSets, TLC

VARIABLES
    now,          \* time.time() as seen by the next call, in ticks
    user_states,  \* Pipeline.user_states: user id -> UserState (a dict)
    last,         \* the most recent hook call: arguments, outcome, return value
    clients,      \* the users whose requests the host delivers in this run
    recent,       \* observer: per user id, the times of its latest evaluated checks
    stage,        \* observer: progress of the user's calls through the pending scenario
    admitted_in_window,  \* observer: per user id, the checks admitted since last_reset
    scores,       \* toxicity filter: the scores handed to is_toxic, in dict order
    verdict       \* toxicity filter: <<>> before the call, <<what is_toxic returned>> after

vars == <<now, user_states, last, clients, recent, stage, admitted_in_window,
          scores, verdict>>

----------------------------------------------------------------------------
(* Bounds of the model *)

Res == 2              \* ticks per second
ShortSeconds == 30    \* the short time step is one tick more than this many seconds
HorizonSeconds == 125 \* seconds explored after the start
PendingCap == 5       \* inlet is not explored beyond this many pending requests

(* Program constants *)

messages_per_minute == 5
burst_limit == 2
cooldown_minutes == 1
WindowSeconds == 60
MinuteSeconds == 60
MaxPending == 4

Minute == WindowSeconds * Res          \* the counter's window, in ticks
Cooldown == cooldown_minutes * MinuteSeconds * Res
StartTime == Minute                    \* time.time() is far beyond 60 at start
ShortStep == ShortSeconds * Res + 1
MaxTime == StartTime + HorizonSeconds * Res

----------------------------------------------------------------------------
(* Values *)

NoneId == "<None>"                     \* user["id"] is None

\* The user argument of the hooks.  truthy: a non-empty dict; has_id: "id" in user.
UserNone    == [truthy |-> FALSE, has_id |-> FALSE, id |-> "",     role |-> ""]
UserNoId    == [truthy |-> TRUE,  has_id |-> FALSE, id |-> "",     role |-> "user"]
UserEmptyId == [truthy |-> TRUE,  has_id |-> TRUE,  id |-> "",     role |-> ""]
UserNullId  == [truthy |-> TRUE,  has_id |-> TRUE,  id |-> NoneId, role |-> ""]
U1          == [truthy |-> TRUE,  has_id |-> TRUE,  id |-> "u1",   role |-> ""]
Admin       == [truthy |-> TRUE,  has_id |-> TRUE,  id |-> "a1",   role |-> "admin"]

Users == {UserNone, UserNoId, UserEmptyId, UserNullId, U1, Admin}

\* The users the host serves in one run: requests that carry no usable
\* identity, an identified user beside a malformed one, and an admin.
Sessions == {{UserNone, UserNoId, UserEmptyId}, {UserNullId, U1}, {Admin}}

\* The body argument of inlet.
\*   ok             {"messages": [..., {"content": "hi"}]}
\*   empty_messages {"messages": []}
\*   no_messages    {}
\*   no_content     {"messages": [{"role": "user"}]}
\*   not_dict       "hi"
Bodies == {"ok", "empty_messages", "no_messages", "no_content", "not_dict"}

\* The response argument of outlet.
Responses == {"ok", "upstream_error"}

\* The message strings of the filter, by kind; remaining is the number the
\* StillBlocked message carries.
Msg(kind, remaining) == [kind |-> kind, remaining |-> remaining]
NoMsg == Msg("", 0)

UserState == [message_count |-> 0, last_reset |-> 0, is_blocked |-> FALSE,
              block_until |-> 0, pending_requests |-> 0]

----------------------------------------------------------------------------
(* Helpers of the pipeline *)

create_response_dict(message, error) ==
    [is_body |-> FALSE, body |-> "", advisory |-> NoMsg, content |-> message,
     finish_reason |-> IF error THEN "error" ELSE "stop", error |-> error]

\* inlet's "return body": the request body itself, the advisory appended to
\* the last message's content when there is one.
ReturnBody(body, advisory) ==
    [is_body |-> TRUE, body |-> body, advisory |-> advisory, content |-> NoMsg,
     finish_reason |-> "", error |-> FALSE]

\* outlet's "return response".
ReturnResponse(response) ==
    [is_body |-> FALSE, body |-> response, advisory |-> NoMsg, content |-> NoMsg,
     finish_reason |-> "", error |-> FALSE]

InternalError == create_response_dict(Msg("InternalError", 0), TRUE)

\* get_user_info: the id of the user; raised when "Usuario " + user_id is
\* evaluated with an id that is not a string.
get_user_info(user) ==
    IF ~user.truthy
    THEN [raised |-> FALSE, user_id |-> "unknown"]
    ELSE LET user_id == IF user.has_id THEN user.id ELSE "unknown"
         IN  [raised |-> user_id = NoneId, user_id |-> user_id]

\* get_user_state: the dict after the lookup, the entry created when missing.
get_user_state(states, user_id) ==
    IF user_id \in DOMAIN states THEN states ELSE (user_id :> UserState) @@ states

\* The state an identity has, or would be created with.
StateOf(states, user_id) == get_user_state(states, user_id)[user_id]

\* Mutation: the remaining time rounded up instead of cut down.
RemainingUp(state, t) == (state.block_until - t + Res - 1) \div Res

\* int(state.block_until - current_time), both floats of seconds.
Remaining(state, t) == (state.block_until - t) \div Res

\* Mutation: completing a request also lifts the user's block.
CompleteLiftsBlock(state) ==
    [state EXCEPT !.pending_requests =
                      IF state.pending_requests - 1 > 0
                      THEN state.pending_requests - 1 ELSE 0,
                  !.is_blocked = FALSE, !.block_until = 0]

\* Mutation: a request completed twice.
CompleteTwice(state) ==
    [state EXCEPT !.pending_requests =
        IF state.pending_requests - 2 > 0 THEN state.pending_requests - 2 ELSE 0]

\* Mutation: the decrement without its floor.
CompleteNoFloor(state) ==
    [state EXCEPT !.pending_requests = state.pending_requests - 1]

\* The decrement of outlet.
Complete(state) ==
    [state EXCEPT !.pending_requests =
        IF state.pending_requests - 1 > 0 THEN state.pending_requests - 1 ELSE 0]

\* Mutation: the window restarts only strictly after its last second.
CountedStrict(state, t) ==
    LET s1 == [state EXCEPT !.is_blocked = FALSE]
        s2 == IF t - s1.last_reset > Minute
              THEN [s1 EXCEPT !.message_count = 0, !.last_reset = t]
              ELSE s1
    IN  [s2 EXCEPT !.message_count = @ + 1, !.pending_requests = @ + 1]

\* Mutation: a new window that keeps the old count.
CountedKeepsCount(state, t) ==
    LET s1 == [state EXCEPT !.is_blocked = FALSE]
        s2 == IF t - s1.last_reset >= Minute
              THEN [s1 EXCEPT !.last_reset = t]
              ELSE s1
    IN  [s2 EXCEPT !.message_count = @ + 1, !.pending_requests = @ + 1]

\* The counting of check_and_update_rate_limit past the block test (lines
\* 95-105): unblock, reset the window when a minute has passed, count.
Counted(state, t) ==
    LET s1 == [state EXCEPT !.is_blocked = FALSE]
        s2 == IF t - s1.last_reset >= Minute
              THEN [s1 EXCEPT !.message_count = 0, !.last_reset = t]
              ELSE s1
    IN  [s2 EXCEPT !.message_count = @ + 1, !.pending_requests = @ + 1]

\* Mutation: the pending test moved in front of the per-minute test.
DecidePendingFirst(state, t) ==
    IF state.pending_requests > MaxPending
    THEN [state |-> state, allowed |-> FALSE, message |-> Msg("TooManyPending", 0)]
    ELSE IF state.message_count > messages_per_minute
    THEN [state |-> [state EXCEPT !.is_blocked = TRUE, !.block_until = t + Cooldown],
          allowed |-> FALSE, message |-> Msg("RateExceeded", 0)]
    ELSE IF state.message_count > burst_limit
    THEN [state |-> state, allowed |-> TRUE, message |-> Msg("BurstWarning", 0)]
    ELSE [state |-> state, allowed |-> TRUE, message |-> NoMsg]

\* Mutation: the per-minute limit tested one message too late.
DecideLate(state, t) ==
    IF state.message_count > messages_per_minute + 1
    THEN [state |-> [state EXCEPT !.is_blocked = TRUE, !.block_until = t + Cooldown],
          allowed |-> FALSE, message |-> Msg("RateExceeded", 0)]
    ELSE IF state.pending_requests > MaxPending
    THEN [state |-> state, allowed |-> FALSE, message |-> Msg("TooManyPending", 0)]
    ELSE IF state.message_count > burst_limit
    THEN [state |-> state, allowed |-> TRUE, message |-> Msg("BurstWarning", 0)]
    ELSE [state |-> state, allowed |-> TRUE, message |-> NoMsg]

\* The decision of check_and_update_rate_limit on the counted state (lines
\* 109-124): the new state, allowed, message.
Decide(state, t) ==
    IF state.message_count > messages_per_minute
    THEN [state |-> [state EXCEPT !.is_blocked = TRUE, !.block_until = t + Cooldown],
          allowed |-> FALSE, message |-> Msg("RateExceeded", 0)]
    ELSE IF state.pending_requests > MaxPending
    THEN [state |-> state, allowed |-> FALSE, message |-> Msg("TooManyPending", 0)]
    ELSE IF state.message_count > burst_limit
    THEN [state |-> state, allowed |-> TRUE, message |-> Msg("BurstWarning", 0)]
    ELSE [state |-> state, allowed |-> TRUE, message |-> NoMsg]

\* Mutation: every identity is given the state the check has decided.
check_writes_every_state(states, user, t) ==
    LET info == get_user_info(user)
    IN  IF info.raised
        THEN [raised |-> TRUE, allowed |-> FALSE, message |-> NoMsg, user_states |-> states]
        ELSE
        LET user_id == info.user_id
            created == get_user_state(states, user_id)
            state   == created[user_id]
        IN  IF state.is_blocked /\ t < state.block_until
            THEN [raised |-> FALSE, allowed |-> FALSE,
                  message |-> Msg("StillBlocked", Remaining(state, t)),
                  user_states |-> created]
            ELSE LET d == Decide(Counted(state, t), t)
                 IN  [raised |-> FALSE, allowed |-> d.allowed, message |-> d.message,
                      user_states |-> [id \in DOMAIN created |-> d.state]]

\* Mutation: a check answered from the block counts the request as pending.
check_counts_while_blocked(states, user, t) ==
    LET info == get_user_info(user)
    IN  IF info.raised
        THEN [raised |-> TRUE, allowed |-> FALSE, message |-> NoMsg, user_states |-> states]
        ELSE
        LET user_id == info.user_id
            created == get_user_state(states, user_id)
            state   == created[user_id]
        IN  IF state.is_blocked /\ t < state.block_until
            THEN [raised |-> FALSE, allowed |-> FALSE,
                  message |-> Msg("StillBlocked", Remaining(state, t)),
                  user_states |-> [created EXCEPT ![user_id].pending_requests = @ + 1]]
            ELSE LET d == Decide(Counted(state, t), t)
                 IN  [raised |-> FALSE, allowed |-> d.allowed, message |-> d.message,
                      user_states |-> [created EXCEPT ![user_id] = d.state]]

check_and_update_rate_limit(states, user, t) ==
    LET info == get_user_info(user)
    IN  IF info.raised
        THEN [raised |-> TRUE, allowed |-> FALSE, message |-> NoMsg, user_states |-> states]
        ELSE
        LET user_id == info.user_id
            created == get_user_state(states, user_id)
            state   == created[user_id]
        IN  IF state.is_blocked /\ t < state.block_until
            THEN [raised |-> FALSE, allowed |-> FALSE,
                  message |-> Msg("StillBlocked", Remaining(state, t)),
                  user_states |-> created]
            ELSE LET d == Decide(Counted(state, t), t)
                 IN  [raised |-> FALSE, allowed |-> d.allowed, message |-> d.message,
                      user_states |-> [created EXCEPT ![user_id] = d.state]]

\* inlet: the call's outcome, as [ret, user_states, checked, allowed, message,
\* raised].  checked: check_and_update_rate_limit returned a decision;
\* raised: an exception reached the except clause.
inlet(states, body, user, t) ==
    LET skipped(ret, raised) ==
            [ret |-> ret, user_states |-> states, checked |-> FALSE,
             allowed |-> FALSE, message |-> NoMsg, raised |-> raised]
    IN
    IF ~user.truthy \/ ~user.has_id
    THEN skipped(ReturnBody(body, NoMsg), FALSE)
    ELSE IF body = "empty_messages"               \* [][-1]: IndexError
    THEN skipped(InternalError, TRUE)
    ELSE
    LET r == check_and_update_rate_limit(states, user, t)
        done(ret, raised) ==
            [ret |-> ret, user_states |-> r.user_states, checked |-> TRUE,
             allowed |-> r.allowed, message |-> r.message, raised |-> raised]
    IN  IF r.raised THEN skipped(InternalError, TRUE)
        ELSE IF ~r.allowed THEN done(create_response_dict(r.message, TRUE), FALSE)
        ELSE IF r.message # NoMsg /\ body \in {"ok", "no_content"}
        THEN IF body = "no_content"               \* messages[-1]['content']: KeyError
             THEN done(InternalError, TRUE)
             ELSE done(ReturnBody(body, r.message), FALSE)
        ELSE done(ReturnBody(body, NoMsg), FALSE)

\* outlet: the dict after the call; the return value is the response.
outlet(states, user) ==
    IF user.truthy /\ user.has_id
    THEN LET info == get_user_info(user)
         IN  IF info.raised THEN states
             ELSE LET created == get_user_state(states, info.user_id)
                  IN  [created EXCEPT ![info.user_id] = Complete(@)]
    ELSE states

----------------------------------------------------------------------------
(* The state machine *)

Call(op, user, arg, ret, checked, allowed, message, raised, before) ==
    [op |-> op, user |-> user, arg |-> arg, ret |-> ret, checked |-> checked,
     allowed |-> allowed, message |-> message, raised |-> raised,
     before |-> before, at |-> now]

NoCall == Call("init", UserNone, "", ReturnResponse(""), FALSE, FALSE, NoMsg, FALSE, UserState)

Init ==
    /\ now = StartTime
    /\ user_states = <<>>
    /\ last = NoCall
    /\ clients \in Sessions
    /\ recent = <<>>
    /\ stage = 0
    /\ admitted_in_window = <<>>
    /\ scores = <<>>
    /\ verdict = <<>>

InletCall(user, body) ==
    LET r == inlet(user_states, body, user, now)
        id == get_user_info(user).user_id
    IN  /\ StateOf(user_states, id).pending_requests < PendingCap
        /\ user_states' = r.user_states
        /\ last' = Call("inlet", user, body, r.ret, r.checked, r.allowed, r.message,
                        r.raised, StateOf(user_states, id))
        /\ UNCHANGED <<now, clients>>

OutletCall(user, response) ==
    LET id == get_user_info(user).user_id
    IN  /\ user_states' = outlet(user_states, user)
        /\ last' = Call("outlet", user, response, ReturnResponse(response), FALSE, FALSE,
                        NoMsg, FALSE, StateOf(user_states, id))
        /\ UNCHANGED <<now, clients>>

Advance(d) ==
    /\ now + d <= MaxTime
    /\ now' = now + d
    /\ UNCHANGED <<user_states, last, clients>>

Inlet ==
    \E user \in clients, body \in Bodies :
        InletCall(user, body) /\ UNCHANGED <<recent, stage, admitted_in_window, scores, verdict>>

Outlet ==
    \E user \in clients, response \in Responses :
        OutletCall(user, response) /\ UNCHANGED <<recent, stage, admitted_in_window, scores, verdict>>

Tick == \E d \in {ShortStep, Minute} : Advance(d) /\ UNCHANGED <<recent, stage, admitted_in_window, scores, verdict>>

Next == Inlet \/ Outlet \/ Tick

Spec == Init /\ [][Next]_vars

----------------------------------------------------------------------------
(* The same machine for one identified user, with two observers.           *)
(* recent keeps the times of the user's latest checks that were evaluated  *)
(* (not answered StillBlocked): the last Observed of them, none older than *)
(* a minute.  stage follows the user's calls, from the first one, through  *)
(* the scenario "four checks admitted, a fifth check, one complete, a      *)
(* check": the number of calls of the scenario made so far, OffScript once *)
(* the calls have left it.                                                 *)

Observed == messages_per_minute + 1

RecentOf(id) == IF id \in DOMAIN recent THEN recent[id] ELSE <<>>

Latest(times) ==
    IF Len(times) > Observed
    THEN SubSeq(times, Len(times) - Observed + 1, Len(times))
    ELSE times

Observe(id, evaluated) ==
    LET kept == SelectSeq(RecentOf(id), LAMBDA t : now - t <= Minute)
    IN  recent' = IF evaluated
                  THEN (id :> Latest(Append(kept, now))) @@ recent
                  ELSE recent

InitObserved ==
    /\ now = StartTime
    /\ user_states = <<>>
    /\ last = NoCall
    /\ clients = {U1}
    /\ recent = <<>>
    /\ stage = 0
    /\ admitted_in_window = <<>>
    /\ scores = <<>>
    /\ verdict = <<>>

\* Two users with ids of their own share a filter constructed a minute
\* before the end of the horizon.
PairStart == MaxTime - Minute

InitPair ==
    /\ now = PairStart
    /\ user_states = <<>>
    /\ last = NoCall
    /\ clients = {U1, Admin}
    /\ recent = <<>>
    /\ stage = 0
    /\ admitted_in_window = <<>>
    /\ scores = <<>>
    /\ verdict = <<>>

SpecPair == InitPair /\ [][Next]_vars

Admitted == MaxPending                 \* the checks the scenario has admitted
FifthCheck == Admitted + 1
OneComplete == FifthCheck + 1
NextCheck == OneComplete + 1
OffScript == NextCheck + 1

\* stage after a check with outcome allowed, and after a complete.
AfterCheck(allowed) ==
    IF stage < Admitted /\ allowed THEN stage + 1
    ELSE IF stage = Admitted THEN FifthCheck
    ELSE IF stage = OneComplete THEN NextCheck
    ELSE OffScript

AfterComplete == IF stage = FifthCheck THEN OneComplete ELSE OffScript

\* admitted_in_window counts the checks that admitted since the identity's
\* last_reset was last written.
AdmittedOf(id) == IF id \in DOMAIN admitted_in_window THEN admitted_in_window[id] ELSE 0

CountAdmitted(id, r) ==
    LET restarted == StateOf(r.user_states, id).last_reset
                        # StateOf(user_states, id).last_reset
        so_far == IF restarted THEN 0 ELSE AdmittedOf(id)
    IN  admitted_in_window' =
            IF r.checked /\ r.message.kind # "StillBlocked"
            THEN (id :> (so_far + (IF r.allowed THEN 1 ELSE 0))) @@ admitted_in_window
            ELSE admitted_in_window

InletObserved ==
    \E user \in clients, body \in Bodies :
        /\ InletCall(user, body)
        /\ LET r == inlet(user_states, body, user, now)
           IN  /\ Observe(get_user_info(user).user_id,
                          r.checked /\ r.message.kind # "StillBlocked")
               /\ stage' = IF r.checked THEN AfterCheck(r.allowed) ELSE stage
               /\ CountAdmitted(get_user_info(user).user_id, r)
        /\ UNCHANGED <<scores, verdict>>

OutletObserved ==
    \E user \in clients, response \in Responses :
        /\ OutletCall(user, response)
        /\ stage' = AfterComplete
        /\ UNCHANGED <<recent, admitted_in_window, scores, verdict>>

NextObserved == InletObserved \/ OutletObserved \/ Tick

SpecObserved == InitObserved /\ [][NextObserved]_vars

----------------------------------------------------------------------------
(* Properties *)

Ids == DOMAIN user_states

\* The last call was a hook call for a user whose id has a state.
LastId == get_user_info(last.user).user_id
LastState == StateOf(user_states, LastId)
LastChecked == last.op = "inlet" /\ last.checked
LastKind == last.message.kind

\* C1: pending_requests and message_count of every identity are >= 0 in
\* every reachable state, whatever the interleaving of inlet and outlet
\* calls, also when outlet is called more often than requests were admitted.
C1_CountersNonNegative ==
    \A id \in Ids :
        /\ user_states[id].pending_requests >= 0
        /\ user_states[id].message_count >= 0

\* C1 witness: outlet was called for a user with nothing pending, and the
\* count stayed at 0.
C1_Witness ==
    /\ last.op = "outlet"
    /\ last.user = U1
    /\ last.before.pending_requests = 0
    /\ "u1" \in Ids
    /\ user_states["u1"].pending_requests = 0

\* The six latest evaluated checks of the last caller, when there are six.
SixChecks == Len(RecentOf(LastId)) = Observed
FirstOfSix == RecentOf(LastId)[1]

\* A check made while the block is active is answered StillBlocked.
BlockedIsStillBlocked ==
    (LastChecked /\ last.before.is_blocked /\ last.at < last.before.block_until)
        => (~last.allowed /\ LastKind = "StillBlocked")

\* C2 as stated: whenever six checks of one identity fall within a span of
\* 60 seconds, the 6th is rejected RateExceeded and sets blocked_until to
\* now + cooldown, and every later check is StillBlocked until then.
C2_SixWithinAMinute ==
    /\ (LastChecked /\ LastKind # "StillBlocked" /\ SixChecks
            /\ last.at - FirstOfSix < Minute)
        => /\ ~last.allowed
           /\ LastKind = "RateExceeded"
           /\ LastState.is_blocked
           /\ LastState.block_until = last.at + Cooldown
    /\ BlockedIsStillBlocked

\* C2 amended: whenever six checks of one identity fall within one fixed
\* window of the counter (all six at or after the window start last_reset),
\* the 6th is rejected RateExceeded and sets blocked_until to now + cooldown,
\* and every later check is StillBlocked until then.
C2_SixWithinAWindow ==
    /\ (LastChecked /\ LastKind # "StillBlocked" /\ SixChecks
            /\ FirstOfSix >= LastState.last_reset)
        => /\ ~last.allowed
           /\ LastKind = "RateExceeded"
           /\ LastState.is_blocked
           /\ LastState.block_until = last.at + Cooldown
    /\ BlockedIsStillBlocked

\* C2 witness: the 6th check of a window has just been rejected.
C2_Witness ==
    /\ LastChecked /\ SixChecks
    /\ FirstOfSix >= LastState.last_reset
    /\ LastKind = "RateExceeded"
    /\ LastState.block_until = now + Cooldown


\* C3 as stated: once an identity's first four checks have been admitted with
\* no complete call, its fifth check is rejected TooManyPending, and after
\* exactly one complete call its next check is admitted.
C3_AdmittedAfterOneComplete ==
    /\ (stage = FifthCheck /\ LastChecked)
        => (~last.allowed /\ LastKind = "TooManyPending")
    /\ (stage = NextCheck /\ LastChecked) => last.allowed

\* The last check found the identity blocked: is_blocked with now < block_until.
LastFoundBlocked ==
    LastChecked /\ last.before.is_blocked /\ last.at < last.before.block_until

\* The last check found a block that had run out: is_blocked with now >= block_until.
LastFoundExpired ==
    LastChecked /\ last.before.is_blocked /\ last.at >= last.before.block_until

\* A check at or after block_until is decided by the normal checks: it is
\* counted, and answered by one of their outcomes.
ResumesNormally ==
    LastFoundExpired
        => /\ LastKind \in {"RateExceeded", "TooManyPending", "BurstWarning", ""}
           /\ LastState.pending_requests = last.before.pending_requests + 1
           /\ LastState.message_count >= 1

\* The number a check made now would give a blocked identity does not
\* increase from one state to the next while the block lasts.
BlockedNow(state, t) == state.is_blocked /\ t < state.block_until

RetryAfterNeverIncreases ==
    \A id \in Ids :
        (BlockedNow(user_states[id], now) /\ BlockedNow(user_states'[id], now'))
            => Remaining(user_states'[id], now') <= Remaining(user_states[id], now)

\* C4 as stated: a check made while now < blocked_until is rejected
\* StillBlocked with retry_after = blocked_until - now, and the first check
\* with now >= blocked_until is decided by the normal checks.
C4_RetryAfterIsExact ==
    /\ LastFoundBlocked
        => /\ ~last.allowed
           /\ LastKind = "StillBlocked"
           /\ last.message.remaining * Res = last.before.block_until - last.at
    /\ ResumesNormally

\* C4 amended: a check made while now < blocked_until is rejected
\* StillBlocked with retry_after = blocked_until - now cut down to whole
\* seconds, which does not increase as now advances; the first check with
\* now >= blocked_until is decided by the normal checks.
C4_RetryAfterIsTruncated ==
    /\ [](/\ LastFoundBlocked
             => /\ ~last.allowed
                /\ LastKind = "StillBlocked"
                /\ last.message.remaining * Res <= last.before.block_until - last.at
                /\ (last.message.remaining + 1) * Res > last.before.block_until - last.at
                /\ LastState = last.before
          /\ ResumesNormally)
    /\ [][RetryAfterNeverIncreases]_vars

\* C4 witness: a check was answered StillBlocked with a fraction of a second
\* cut off its retry_after.
C4_Witness ==
    /\ LastFoundBlocked
    /\ LastKind = "StillBlocked"
    /\ last.message.remaining * Res < last.before.block_until - last.at

\* C5 as stated: a check that admits increments pending_requests and the
\* counter, and a check that rejects leaves both unchanged.
C5_RejectLeavesCounters ==
    LastChecked
        => IF last.allowed
           THEN /\ LastState.pending_requests = last.before.pending_requests + 1
                /\ LastState.message_count >= 1
           ELSE /\ LastState.pending_requests = last.before.pending_requests
                /\ LastState.message_count = last.before.message_count

\* C6 as stated: a check for a user whose role is admin always admits.
C6_AdminAlwaysAdmitted ==
    (LastChecked /\ last.user.role = "admin") => last.allowed

\* C7 as stated: when an exception is raised inside inlet, inlet returns the
\* request body and not an error object.
C7_FaultIsAdmitted ==
    (last.op = "inlet" /\ last.raised)
        => (last.ret.is_body /\ last.ret.body = last.arg /\ ~last.ret.error)

\* The requests whose identity is empty or missing.
Anonymous == {UserNone, UserNoId, UserEmptyId}

\* C8 as stated: an inlet call whose user has an empty or missing id is
\* checked against the one bucket "unknown", and does not raise.
C8_AnonymousShareUnknown ==
    (last.op = "inlet" /\ last.user \in Anonymous /\ last.arg = "ok")
        => /\ ~last.raised
           /\ last.checked
           /\ Ids = {"unknown"}

\* C9: every outlet call decrements pending_requests of the caller's
\* identity by one, floored at 0, changes nothing else of its state, and
\* returns the response it was given, whatever the response is.
C9_OutletCompletesOnce ==
    last.op = "outlet"
        => /\ last.ret = ReturnResponse(last.arg)
           /\ LastState.pending_requests =
                IF last.before.pending_requests >= 1
                THEN last.before.pending_requests - 1 ELSE 0
           /\ LastState = [last.before EXCEPT
                              !.pending_requests = LastState.pending_requests]

\* C9 witness: outlet was given a failed upstream response for a user with
\* two requests pending, and one is left.
C9_Witness ==
    /\ last.op = "outlet"
    /\ last.arg = "upstream_error"
    /\ last.user = U1
    /\ last.before.pending_requests = 2
    /\ LastState.pending_requests = 1

\* An error-shaped return value carrying the message of the check.
ErrorShaped(ret, message) ==
    ~ret.is_body /\ ret.error /\ ret.finish_reason = "error" /\ ret.content = message

\* C10 as stated: inlet returns an error-shaped object exactly when the check
\* rejected the request, and the request body whenever it admitted it.
C10_ErrorIffRejected ==
    last.op = "inlet"
        => /\ last.ret.error <=> (last.checked /\ ~last.allowed)
           /\ (last.checked /\ ~last.allowed) => ErrorShaped(last.ret, last.message)
           /\ (last.checked /\ last.allowed) => last.ret.is_body


----------------------------------------------------------------------------
(* Options the design document names and RateLimitConfig does not have *)

max_requests_per_window == 2
window_size_seconds == 5
block_duration_seconds == 10
min_interval_seconds == 2

\* The evaluated checks of the last caller that the observer holds.
Checks == RecentOf(LastId)

\* C11 as stated: when max_requests_per_window checks of one identity fall
\* within window_size_seconds, the last of them is rejected WindowExceeded and
\* blocked_until is set to now + block_duration_seconds.
C11_WindowExceeded ==
    (/\ LastChecked /\ LastKind # "StillBlocked"
     /\ Len(Checks) >= max_requests_per_window
     /\ last.at - Checks[Len(Checks) - max_requests_per_window + 1]
            < window_size_seconds * Res)
        => /\ ~last.allowed
           /\ LastKind = "WindowExceeded"
           /\ LastState.is_blocked
           /\ LastState.block_until = last.at + block_duration_seconds * Res

\* C12 as stated: a check made less than min_interval_seconds after an
\* admitted check of the same identity is rejected TooFrequent.
C12_TooFrequent ==
    [][(/\ LastChecked /\ last.allowed
        /\ last' # last
        /\ last'.op = "inlet" /\ last'.checked
        /\ last'.user = last.user
        /\ last'.at - last.at < min_interval_seconds * Res)
            => (~last'.allowed /\ last'.message.kind = "TooFrequent")]_vars


\* The last check was evaluated (the identity was not blocked) and this
\* request brought pending_requests over the ceiling.
LastOverflowed ==
    /\ LastChecked /\ LastKind # "StillBlocked"
    /\ last.before.pending_requests + 1 > MaxPending

\* C13 as stated: a check of a non-blocked identity that brings
\* pending_requests over the ceiling is rejected TooManyPending and sets no
\* block, also when it exceeds messages_per_minute.
C13_PendingTestedFirst ==
    LastOverflowed
        => /\ ~last.allowed
           /\ LastKind = "TooManyPending"
           /\ ~LastState.is_blocked
           /\ LastState.block_until = last.before.block_until

\* C13 amended: a check of a non-blocked identity that brings
\* pending_requests over the ceiling is rejected; the per-minute test comes
\* first, so it is rejected RateExceeded and sets the block when it also
\* exceeds messages_per_minute, and TooManyPending with no block otherwise.
C13_PerMinuteTestedFirst ==
    LastOverflowed
        => /\ ~last.allowed
           /\ IF LastState.message_count > messages_per_minute
              THEN /\ LastKind = "RateExceeded"
                   /\ LastState.is_blocked
                   /\ LastState.block_until = last.at + Cooldown
              ELSE /\ LastKind = "TooManyPending"
                   /\ ~LastState.is_blocked
                   /\ LastState.block_until = last.before.block_until

\* C13 witness: a check overflowed pending_requests and the per-minute limit
\* at once, and was rejected RateExceeded.
C13_Witness ==
    /\ LastOverflowed
    /\ LastState.message_count > messages_per_minute
    /\ LastState.pending_requests > MaxPending
    /\ LastKind = "RateExceeded"


\* C14: while an identity's block is active (now < block_until), no step
\* lowers its block_until: no check and no complete shortens the block.
C14_BlockNeverShortened ==
    [][\A id \in Ids :
          BlockedNow(user_states[id], now)
              => /\ id \in DOMAIN user_states'
                 /\ user_states'[id].block_until >= user_states[id].block_until]_vars

\* C14 witness: outlet completed a request of a user whose block was active,
\* and the block stands as it was.
C14_Witness ==
    /\ last.op = "outlet"
    /\ BlockedNow(last.before, last.at)
    /\ last.before.pending_requests >= 1
    /\ LastState.is_blocked
    /\ LastState.block_until = last.before.block_until


\* The bodies that have a last message.
WithLastMessage == {"ok", "no_content"}

\* C15 as stated: a check that passes the block, per-minute and pending
\* tests answers with the burst advisory exactly when message_count, this
\* request counted, exceeds burst_limit, and with an empty message otherwise;
\* with the advisory, inlet returns the body with the advisory appended to
\* its last message's content.
C15_BurstWarning ==
    (LastChecked /\ last.allowed)
        => /\ LastKind = (IF LastState.message_count > burst_limit
                          THEN "BurstWarning" ELSE "")
           /\ LastKind = "" => last.ret = ReturnBody(last.arg, NoMsg)
           /\ (LastKind = "BurstWarning" /\ last.arg \in WithLastMessage)
                => last.ret = ReturnBody(last.arg, last.message)
           /\ (LastKind = "BurstWarning" /\ last.arg \notin WithLastMessage)
                => last.ret = ReturnBody(last.arg, NoMsg)


\* C16: in every reachable state message_count of an identity is at most
\* messages_per_minute + 1, and at most messages_per_minute checks have been
\* admitted in its current window (since last_reset was last written).
C16_WindowBounded ==
    \A id \in Ids :
        /\ user_states[id].message_count <= messages_per_minute + 1
        /\ AdmittedOf(id) <= messages_per_minute
        /\ AdmittedOf(id) <= user_states[id].message_count

\* C16 witness: a window has admitted messages_per_minute checks and
\* rejected the next one.
C16_Witness ==
    /\ "u1" \in Ids
    /\ AdmittedOf("u1") = messages_per_minute
    /\ user_states["u1"].message_count = messages_per_minute + 1
    /\ LastChecked /\ LastKind = "RateExceeded"


\* A check evaluated when the window of the identity had run its full length.
LastRolledOver ==
    /\ LastChecked
    /\ LastKind # "StillBlocked"
    /\ last.at - last.before.last_reset >= Minute

\* C17: the first check at or after block_until clears is_blocked, starts
\* a fresh window (message_count 1, last_reset the time of the check) and
\* is never rejected with RateExceeded; a rollover, with or without a
\* block, resets the counter and the window start only: pending_requests
\* is the count before the check plus the one the check adds.
C17_ExpiredBlockStartsFresh ==
    /\ LastFoundExpired =>
        /\ LastRolledOver
        /\ ~LastState.is_blocked
        /\ LastKind # "RateExceeded"
    /\ LastRolledOver =>
        /\ LastState.message_count = 1
        /\ LastState.last_reset = last.at
        /\ LastState.pending_requests = last.before.pending_requests + 1
        /\ LastState.block_until = last.before.block_until

\* C17 witness: a check found an expired block on an identity that still
\* had requests pending.
C17_Witness ==
    /\ LastFoundExpired
    /\ last.before.pending_requests > 0
    /\ last.before.message_count > messages_per_minute


\* C18: a check rejected with StillBlocked leaves the whole state of the
\* identity as it was: both counters, last_reset, is_blocked and block_until.
C18_StillBlockedChangesNothing ==
    (LastChecked /\ LastKind = "StillBlocked")
        => /\ LastId \in Ids
           /\ LastState = last.before
           /\ LastState.is_blocked

\* C18 witness: a check was rejected with StillBlocked while a request of
\* the identity was pending, some time into the block.
C18_Witness ==
    /\ LastChecked
    /\ LastKind = "StillBlocked"
    /\ last.before.pending_requests > 0
    /\ last.at > last.before.last_reset + Minute


\* C19: a call made for one identity never changes the state of another:
\* across every step, each identity other than that of the step's call
\* keeps its whole state.
C19_IdentitiesIsolated ==
    [][\A id \in Ids :
          id # LastId' => (id \in Ids' /\ user_states'[id] = user_states[id])]_vars

\* C19 witness: a check has counted a request of u1 while a1 had a block
\* and requests pending.
C19_Witness ==
    /\ LastChecked
    /\ LastId = "u1"
    /\ LastState # last.before
    /\ "a1" \in Ids
    /\ user_states["a1"].is_blocked
    /\ user_states["a1"].pending_requests > 0


-----------------------------------------------------------------------------
(* The toxicity filter: Pipeline.is_toxic of detoxify_filter_pipeline.py.  *)
(* Scores and thresholds are in hundredths.  A score map is the sequence   *)
(* of its items in dict order, each category occurring once.               *)

MaxScores == 2

\* ToxicityThresholds: the fields and their defaults.
Thresholds ==
    [toxicity |-> 50, severe_toxicity |-> 10, obscene |-> 15, threat |-> 10,
     insult |-> 15, identity_attack |-> 10, sexual_explicit |-> 15]

\* A name every Python object has an attribute for, and that is no field.
OtherAttributes == {"__class__"}

\* Category names: the fields, a category the thresholds object has no
\* attribute for, and a name of another attribute.
Categories == DOMAIN Thresholds \cup {"identity_hate"} \cup OtherAttributes

\* Scores at, and just past, each of the thresholds.
Levels == {10, 11, 15, 16, 50, 51}

Item(category, score) == [category |-> category, score |-> score]
Items == [category : Categories, score : Levels]

\* The score maps of exactly n items.
RECURSIVE MapsOf(_)
MapsOf(n) ==
    IF n = 0 THEN {<<>>}
    ELSE {Append(m, item) : m \in MapsOf(n - 1), item \in Items}

ScoreMaps ==
    {m \in UNION {MapsOf(n) : n \in 0..MaxScores} :
        \A i, j \in 1..Len(m) : i # j => m[i].category # m[j].category}

\* getattr(self.thresholds, category, None): a threshold, None, or another
\* attribute of the object.
getattr(category) ==
    IF category \in DOMAIN Thresholds
    THEN [kind |-> "float", value |-> Thresholds[category]]
    ELSE IF category \in OtherAttributes
    THEN [kind |-> "attribute", value |-> 0]
    ELSE [kind |-> "None", value |-> 0]

\* Mutation: a score equal to the threshold counts as exceeding it.
ExceedsInclusive(threshold, score) == score >= threshold.value

\* float(score) > threshold, for a threshold that is a number.
Exceeds(threshold, score) == score > threshold.value

\* The loop of is_toxic from item i on.  Comparing a number with an
\* attribute that is no number raises TypeError, and the except clause
\* returns False.
RECURSIVE ScanFrom(_, _)
ScanFrom(items, i) ==
    IF i > Len(items)
    THEN FALSE
    ELSE LET threshold == getattr(items[i].category)
         IN  IF threshold.kind = "None"
             THEN ScanFrom(items, i + 1)
             ELSE IF threshold.kind = "attribute"
             THEN FALSE
             ELSE IF Exceeds(threshold, items[i].score)
             THEN TRUE
             ELSE ScanFrom(items, i + 1)

is_toxic(items) == ScanFrom(items, 1)

InitToxic ==
    /\ now = StartTime
    /\ user_states = <<>>
    /\ last = NoCall
    /\ clients = {}
    /\ recent = <<>>
    /\ stage = 0
    /\ admitted_in_window = <<>>
    /\ scores \in ScoreMaps
    /\ verdict = <<>>

IsToxic ==
    /\ verdict = <<>>
    /\ verdict' = <<is_toxic(scores)>>
    /\ UNCHANGED <<now, user_states, last, clients, recent, stage,
                   admitted_in_window, scores>>

NextToxic == IsToxic

SpecToxic == InitToxic /\ [][NextToxic]_vars

\* Some item of the score map has a configured threshold and a score
\* strictly greater than it.
SomeExceeds ==
    \E i \in 1..Len(scores) :
        /\ scores[i].category \in DOMAIN Thresholds
        /\ scores[i].score > Thresholds[scores[i].category]

\* C20: is_toxic(scores) returns true exactly when some category of scores
\* has a configured threshold and a score strictly greater than it;
\* categories without a configured threshold are ignored, and an empty
\* score map yields false.
C20_ToxicIffExceeds ==
    verdict # <<>> => (verdict[1] <=> SomeExceeds)

\* The same equivalence on the score maps whose categories are fields of
\* the thresholds or names the thresholds object has no attribute for.
ToxicIffExceedsOnCategories ==
    (verdict # <<>> /\ \A i \in 1..Len(scores) : scores[i].category \notin OtherAttributes)
        => (verdict[1] <=> SomeExceeds)

====
